---- MODULE Spec2Model ----
\* A state-machine model of the sahay frontend: the auth hook and App routing
\* (src/frontend/src/App.jsx), the Dashboard component and its handlers
\* (src/frontend/src/Dashboard.jsx) and the API client
\* (src/frontend/src/lib/api.js), with the auth provider and the backend as
\* nondeterministic environments.
EXTENDS Integers, Sequences, FiniteSets, Bags, TLC

\* ------------------------------------------------------------------ bounds

\* Handler invocations that may be awaiting a response at the same time.
MaxInFlight == 2
\* Email ids the backend may return (1..MaxEmailId).
MaxEmailId == 1
\* Application ids the backend may return (1..MaxAppId).
MaxAppId == 1

\* ------------------------------------------------------- JavaScript values

JNull == [t |-> "null"]

JStr(s) == [t |-> "str", v |-> s]

JNum(n) == [t |-> "num", v |-> n]

JList(l) == [t |-> "list", v |-> l]

\* A response body that is not JSON: response.json() rejects on it.
JInvalid == [t |-> "invalid"]

\* An error body {detail: d}; d = JNull stands for a body without detail.
JErr(d) == [t |-> "obj", detail |-> d]

\* JavaScript truthiness, as used by `!providerToken`, `user ?`, `a || b`.
Truthy(x) ==
    /\ x.t # "null"
    /\ ~(x.t = "str" /\ x.v = "")
    /\ ~(x.t = "num" /\ x.v = 0)

\* a || b
JOr(a, b) == IF Truthy(a) THEN a ELSE b

\* a ?? b
JCoalesce(a, b) == IF a = JNull THEN b ELSE a

\* ------------------------------------------------------------ environment

\* What a session's provider_token may be: absent, or a token.
ProviderTokens == {JNull, JStr("ya29.token")}

TheUser == JStr("user@example.com")

\* What getSession resolves to and what an auth event carries.
Sessions ==
    {JNull} \cup {[t |-> "session", user |-> TheUser, provider_token |-> p] :
                      p \in ProviderTokens}

\* session?.user ?? null
SessionUser(session) ==
    IF session = JNull THEN JNull ELSE JCoalesce(session.user, JNull)

\* session?.provider_token ?? null
SessionToken(session) ==
    IF session = JNull THEN JNull ELSE JCoalesce(session.provider_token, JNull)

Prefix(n) == [i \in 1..n |-> JNum(i)]

\* Bodies the backend may answer GET emails with: null or a list of emails
\* (an email is represented by its id).
EmailBodies == {JNull} \cup {JList(Prefix(n)) : n \in 0..MaxEmailId}

\* Bodies the backend may answer GET applications with: a list of
\* applications (an application is represented by its id).
AppBodies == {JList(Prefix(n)) : n \in 0..MaxAppId}

\* Bodies of the two POST endpoints (the handlers ignore them).
PostBodies == {JErr(JNull)}

\* ------------------------------------------------------------- lib/api.js

Return(v) == [kind |-> "return", value |-> v]

Throw(m) == [kind |-> "throw", message |-> m]

\* new URLSearchParams({...}).toString() for the one query string in use.
UrlEncode(s) == IF s = "in:inbox" THEN "in%3Ainbox" ELSE s

MaxResults == 10

DefaultQuery == "in:inbox"

\* The request apiRequest hands to fetch(): the Authorization header is set
\* only for a truthy token.
ApiRequest(endpoint, method, token) ==
    [url |-> endpoint,
     method |-> method,
     auth |-> IF Truthy(token) THEN JStr("Bearer " \o token.v) ELSE JNull]

\* What apiRequest returns or throws for an outcome of fetch().
ApiResult(out) ==
    IF out.fetch = "rejects" THEN Throw("Failed to fetch")
    ELSE IF ~out.ok THEN
        LET error == IF out.body = JInvalid
                        THEN JErr(JStr("Unknown error"))
                        ELSE out.body
        IN  Throw(JOr(error.detail, JStr("API request failed")).v)
    ELSE IF out.body = JInvalid THEN Throw("Unexpected token in JSON")
    ELSE Return(out.body)

EmailsUrl(query, maxResults) ==
    "/api/emails?query=" \o UrlEncode(query)
        \o "&max_results=" \o ToString(maxResults)

fetchEmails(token, query, maxResults) ==
    ApiRequest(EmailsUrl(query, maxResults), "GET", token)

SaveUrl(emailId) == "/api/applications/save/" \o ToString(emailId)

saveApplication(token, emailId) == ApiRequest(SaveUrl(emailId), "POST", token)

ApplicationsUrl == "/api/applications"

getApplications == ApiRequest(ApplicationsUrl, "GET", JNull)

ProcessLatestUrl(query) ==
    "/api/applications/process-latest?query=" \o UrlEncode(query)

processLatestEmail(token) ==
    ApiRequest(ProcessLatestUrl(DefaultQuery), "POST", token)

\* The bodies the backend may answer a request with, by endpoint.
BodiesFor(req) ==
    IF req.method = "POST" THEN PostBodies
    ELSE IF req.url = ApplicationsUrl THEN AppBodies
    ELSE EmailBodies

\* The detail the backend gives when it refuses a request, by endpoint.
DetailFor(req) ==
    IF req.url = ApplicationsUrl THEN "Database unavailable"
    ELSE IF req.method = "GET" THEN "Gmail API error"
    ELSE IF req.url = ProcessLatestUrl(DefaultQuery) THEN "No emails found"
    ELSE "Email not found"

\* Bodies of a response that is not ok: with and without a detail.
ErrorBodies(req) == {JErr(JNull), JErr(JStr(DetailFor(req)))}

\* What the network does with one request: fetch() rejects, or resolves to a
\* response with a status and a body. The bodies enumerated are JSON; ApiResult
\* is defined for a body that is not JSON too.
Outcomes(req) ==
    {[fetch |-> "rejects"]}
    \cup {[fetch |-> "resolves", ok |-> TRUE, body |-> b] :
              b \in BodiesFor(req)}
    \cup {[fetch |-> "resolves", ok |-> FALSE, body |-> b] :
              b \in ErrorBodies(req)}

\* ------------------------------------------------------------------ state

VARIABLES
    user,            \* useAuth: the signed-in user, or null
    providerToken,   \* useAuth: the Gmail provider token, or null
    authLoading,     \* useAuth: loading, true until the first auth answer
    signInLoading,   \* App: a handleGoogleSignIn call is awaiting signInWithGoogle
    sessionPending,  \* the getSession() promise of the mount effect is pending
    lazyStatus,      \* lazy(() => import('./Dashboard')): idle, pending, loaded
    emails,          \* Dashboard: emails
    applications,    \* Dashboard: applications
    loading,         \* Dashboard: loading
    error,           \* Dashboard: error
    processingId,    \* Dashboard: processingId
    inflight,        \* bag of Dashboard handler invocations awaiting a response
    appsRequested    \* observation, "off" unless the run records it: "yes"
                     \* if a GET applications request has been issued in or
                     \* since the latest click or Dashboard mount, else "no"

authVars ==
    <<user, providerToken, authLoading, signInLoading, sessionPending,
      lazyStatus>>

dashVars == <<emails, applications, loading, error, processingId>>

vars == <<authVars, dashVars, inflight, appsRequested>>

\* inflight holds the handler invocations suspended at an await, each a
\* record of the handler, whether the Dashboard instance it belongs to is
\* still mounted (React drops the state updates of an unmounted instance),
\* the requests it is awaiting and how many it has issued so far.

\* The observation after a click, a mount or the issue of a request
\* (`issued`: a GET applications has been issued in or since the latest
\* click or mount).
Observed(issued) ==
    IF appsRequested = "off" THEN "off"
    ELSE IF issued THEN "yes"
    ELSE "no"

\* loadApplications suspended at `await getApplications()`.
LoadApplicationsCall ==
    [handler |-> "loadApplications", live |-> TRUE,
     reqs |-> {getApplications}, sent |-> 1]

Add(inv) == inflight (+) SetToBag({inv})

Remove(inv) == inflight (-) SetToBag({inv})

\* The bound on concurrent invocations.
CanStart == BagCardinality(inflight) < MaxInFlight

\* Every invocation of the instance being unmounted outlives it: nothing is
\* cancelled.
Orphaned(bag) ==
    LET stale == {[i EXCEPT !.live = FALSE] : i \in BagToSet(bag)}
    IN  [i \in stale |->
            CopiesIn(i, bag) + CopiesIn([i EXCEPT !.live = TRUE], bag)]

\* --------------------------------------------------------- App.jsx: render

\* A variant of Route: the auth check is not waited for.
RouteUnguarded(loadingNow, userNow) ==
    IF Truthy(userNow) THEN "dashboard" ELSE "landing"

\* Which branch of <main> App renders.
Route(loadingNow, userNow) ==
    IF loadingNow THEN "spinner"
    ELSE IF Truthy(userNow) THEN "dashboard"
    ELSE "landing"

\* The Dashboard component is mounted: its branch is rendered and the lazy
\* import has resolved.
Mounted == Route(authLoading, user) = "dashboard" /\ lazyStatus = "loaded"

NoTokenMessage == "No Gmail token available. Please sign in again."

\* Dashboard: the useState initial values.
DashboardInit ==
    /\ emails = JList(<<>>)
    /\ applications = JList(<<>>)
    /\ loading = FALSE
    /\ error = JNull
    /\ processingId = JNull

\* The application after construction: the initial state of useAuth, App
\* and the Dashboard.
Constructed ==
    /\ user = JNull
    /\ providerToken = JNull
    /\ authLoading = TRUE
    /\ signInLoading = FALSE
    /\ sessionPending = TRUE
    /\ lazyStatus = "idle"
    /\ DashboardInit
    /\ inflight = EmptyBag

Init == Constructed /\ appsRequested = "off"

\* The same, in a run that records appsRequested.
ObservedInit == Constructed /\ appsRequested = "no"

\* Dashboard mounts: fresh state, and the mount effect calls loadApplications.
DashboardMount ==
    /\ CanStart
    /\ emails' = JList(<<>>)
    /\ applications' = JList(<<>>)
    /\ loading' = FALSE
    /\ error' = JNull
    /\ processingId' = JNull
    /\ inflight' = Add(LoadApplicationsCall)
    /\ appsRequested' = Observed(TRUE)

\* Dashboard unmounts: its state is gone, its invocations keep running.
DashboardUnmount ==
    /\ emails' = JList(<<>>)
    /\ applications' = JList(<<>>)
    /\ loading' = FALSE
    /\ error' = JNull
    /\ processingId' = JNull
    /\ inflight' = Orphaned(inflight)
    /\ UNCHANGED appsRequested

\* App re-renders after useAuth set user, providerToken and loading = false.
Rerender(userNow, tokenNow) ==
    /\ user' = userNow
    /\ providerToken' = tokenNow
    /\ authLoading' = FALSE
    /\ lazyStatus' = IF Truthy(userNow) /\ lazyStatus = "idle"
                        THEN "pending" ELSE lazyStatus
    /\ IF Mounted /\ ~Truthy(userNow) THEN DashboardUnmount
       ELSE IF ~Mounted /\ Truthy(userNow) /\ lazyStatus = "loaded"
           THEN DashboardMount
       ELSE UNCHANGED <<dashVars, inflight, appsRequested>>

\* ---------------------------------------------------------- App.jsx: auth

\* getSession().then(...)
GetSessionResolves(session) ==
    /\ sessionPending
    /\ sessionPending' = FALSE
    /\ Rerender(SessionUser(session), SessionToken(session))
    /\ UNCHANGED signInLoading

\* A variant of GetSessionRejects: the catch only logs.
GetSessionRejectsLogged ==
    /\ sessionPending
    /\ sessionPending' = FALSE
    /\ UNCHANGED <<user, providerToken, authLoading, signInLoading,
                   lazyStatus, dashVars, inflight, appsRequested>>

\* getSession().catch(...): logged, loading = false.
GetSessionRejects ==
    /\ sessionPending
    /\ sessionPending' = FALSE
    /\ Rerender(user, providerToken)
    /\ UNCHANGED signInLoading

\* The onAuthStateChange callback.
AuthStateChange(session) ==
    /\ Rerender(SessionUser(session), SessionToken(session))
    /\ UNCHANGED <<signInLoading, sessionPending>>

\* The lazy import of ./Dashboard resolves; Suspense shows the component.
LazyResolves ==
    /\ lazyStatus = "pending"
    /\ lazyStatus' = "loaded"
    /\ IF Route(authLoading, user) = "dashboard" THEN DashboardMount
       ELSE UNCHANGED <<dashVars, inflight, appsRequested>>
    /\ UNCHANGED <<user, providerToken, authLoading, signInLoading,
                   sessionPending>>

\* handleGoogleSignIn, up to its await (the Hero and CTA buttons).
handleGoogleSignIn ==
    /\ Route(authLoading, user) = "landing"
    /\ ~signInLoading
    /\ signInLoading' = TRUE
    /\ appsRequested' = Observed(FALSE)
    /\ UNCHANGED <<user, providerToken, authLoading, sessionPending,
                   lazyStatus, dashVars, inflight>>

\* signInWithGoogle() returns or throws: the throw is logged; finally.
SignInSettles(ok) ==
    /\ signInLoading
    /\ signInLoading' = FALSE
    /\ UNCHANGED <<user, providerToken, authLoading, sessionPending,
                   lazyStatus, dashVars, inflight, appsRequested>>

\* handleSignOut (the Navbar button, shown for a user): signOut() returns, or
\* throws and the throw is logged. No state of the application is written on
\* either path; the sign-out itself arrives as an auth event. It is a click.
handleSignOut(ok) ==
    /\ Truthy(user)
    /\ ok \in BOOLEAN
    /\ appsRequested' = Observed(FALSE)
    /\ UNCHANGED <<authVars, dashVars, inflight>>

\* What <main> shows: the LoadingSpinner (of the auth check, or as the
\* Suspense fallback while ./Dashboard loads), the Dashboard, the landing page.
SpinnerShown ==
    \/ Route(authLoading, user) = "spinner"
    \/ Route(authLoading, user) = "dashboard" /\ lazyStatus # "loaded"

DashboardShown == Mounted

LandingShown == Route(authLoading, user) = "landing"

\* ------------------------------------------------- Dashboard.jsx: render

\* A variant of FetchDisabled: the button is never disabled.
FetchNeverDisabled == FALSE

\* disabled={loading} on the Fetch Emails button.
FetchDisabled == loading

\* A variant of ProcessDisabled: the button has a flag of its own, set only
\* while Process Latest itself is in progress.
ProcessDisabledOwn ==
    /\ loading
    /\ \E inv \in BagToSet(inflight) :
           inv.live /\ inv.handler = "handleProcessLatest"

\* disabled={loading} on the Process Latest button.
ProcessDisabled == loading

\* disabled={processingId === email.id} on an email's save button.
SaveDisabled(emailId) == processingId = JNum(emailId)

\* The ids of the emails rendered, each with a save button.
ShownEmailIds ==
    IF emails.t = "list" THEN {emails.v[i].v : i \in DOMAIN emails.v} ELSE {}

\* ----------------------------------------------- Dashboard.jsx: handlers

\* A variant of HasToken: the handlers do not check the token.
HasTokenUnchecked == TRUE

\* The guard `if (!providerToken)` of the three authenticated handlers, negated.
HasToken == Truthy(providerToken)

\* A variant of LoadApplicationsResult: a failed load empties the list.
LoadApplicationsResultCleared(res) ==
    IF res.kind = "return" THEN res.value ELSE JList(<<>>)

\* setApplications(apps) of loadApplications; a failure is only logged.
LoadApplicationsResult(res) ==
    IF res.kind = "return" THEN res.value ELSE applications

\* loadApplications, up to its await, as the Refresh button calls it.
loadApplications ==
    /\ Mounted
    /\ CanStart
    /\ inflight' = Add(LoadApplicationsCall)
    /\ appsRequested' = Observed(TRUE)
    /\ UNCHANGED <<authVars, dashVars>>

\* loadApplications after its await.
loadApplicationsSettles(inv, req, out) ==
    /\ inv.handler = "loadApplications"
    /\ inflight' = Remove(inv)
    /\ applications' =
           IF inv.live THEN LoadApplicationsResult(ApiResult(out))
           ELSE applications
    /\ UNCHANGED <<authVars, emails, loading, error, processingId,
                   appsRequested>>

\* The requests handleFetchEmails issues before its await.
FetchEmailsRequests == {fetchEmails(providerToken, DefaultQuery, MaxResults)}

\* A variant of ProcessLatestRequests: the reload is not awaited after the
\* POST but fired together with it.
ProcessLatestRequestsUnawaited ==
    {processLatestEmail(providerToken), getApplications}

\* The requests handleProcessLatest issues before its first await.
ProcessLatestRequests == {processLatestEmail(providerToken)}

\* The requests handleSaveEmail issues before its first await.
SaveEmailRequests(emailId) == {saveApplication(providerToken, emailId)}

\* A handler suspended at its first await.
Started(handler, reqs) ==
    [handler |-> handler, live |-> TRUE, reqs |-> reqs,
     sent |-> Cardinality(reqs)]

\* handleFetchEmails, up to its await.
handleFetchEmails ==
    /\ Mounted
    /\ ~FetchDisabled
    /\ IF ~HasToken
       THEN /\ error' = JStr(NoTokenMessage)
            /\ appsRequested' = Observed(FALSE)
            /\ UNCHANGED <<emails, applications, loading, processingId,
                           inflight>>
       ELSE /\ CanStart
            /\ loading' = TRUE
            /\ error' = JNull
            /\ inflight' = Add(Started("handleFetchEmails",
                                       FetchEmailsRequests))
            /\ appsRequested' =
                   Observed(getApplications \in FetchEmailsRequests)
            /\ UNCHANGED <<emails, applications, processingId>>
    /\ UNCHANGED authVars

\* A variant of FetchEmailsResult: setEmails(result).
FetchEmailsResultRaw(res) == res.value

\* setEmails(result || [])
FetchEmailsResult(res) == JOr(res.value, JList(<<>>))

\* A variant of EmailsAfterFetch: a failed fetch empties the list.
EmailsAfterFetchCleared(res) ==
    IF res.kind = "return" THEN FetchEmailsResult(res) ELSE JList(<<>>)

\* The emails after the try/catch of handleFetchEmails.
EmailsAfterFetch(res) ==
    IF res.kind = "return" THEN FetchEmailsResult(res) ELSE emails

\* A variant of CaughtError: the catch block only logs.
CaughtErrorLogged(inv, res) == error

\* catch (err) { setError(err.message) }, which React drops for an
\* instance that is no longer mounted.
CaughtError(inv, res) == IF inv.live THEN JStr(res.message) ELSE error

\* handleFetchEmails after its await: try, catch, finally.
handleFetchEmailsSettles(inv, req, out) ==
    /\ inv.handler = "handleFetchEmails"
    /\ inflight' = Remove(inv)
    /\ LET res == ApiResult(out)
       IN  /\ emails' = IF inv.live THEN EmailsAfterFetch(res) ELSE emails
           /\ error' = IF res.kind = "throw" THEN CaughtError(inv, res)
                       ELSE error
           /\ loading' = IF inv.live THEN FALSE ELSE loading
    /\ UNCHANGED <<authVars, applications, processingId, appsRequested>>

\* handleProcessLatest, up to its first await.
handleProcessLatest ==
    /\ Mounted
    /\ ~ProcessDisabled
    /\ IF ~HasToken
       THEN /\ error' = JStr(NoTokenMessage)
            /\ appsRequested' = Observed(FALSE)
            /\ UNCHANGED <<emails, applications, loading, processingId,
                           inflight>>
       ELSE /\ CanStart
            /\ loading' = TRUE
            /\ error' = JNull
            /\ inflight' = Add(Started("handleProcessLatest",
                                       ProcessLatestRequests))
            /\ appsRequested' =
                   Observed(getApplications \in ProcessLatestRequests)
            /\ UNCHANGED <<emails, applications, processingId>>
    /\ UNCHANGED authVars

\* handleSaveEmail(emailId), up to its first await.
handleSaveEmail(emailId) ==
    /\ Mounted
    /\ emailId \in ShownEmailIds
    /\ ~SaveDisabled(emailId)
    /\ IF ~HasToken
       THEN /\ appsRequested' = Observed(FALSE)
            /\ UNCHANGED <<dashVars, inflight>>
       ELSE /\ CanStart
            /\ processingId' = JNum(emailId)
            /\ inflight' = Add(Started("handleSaveEmail",
                                       SaveEmailRequests(emailId)))
            /\ appsRequested' =
                   Observed(getApplications \in SaveEmailRequests(emailId))
            /\ UNCHANGED <<emails, applications, loading, error>>
    /\ UNCHANGED authVars

\* A variant of Finally: the handlers have no finally block.
FinallySkipped(inv) == UNCHANGED <<loading, processingId>>

\* The finally block of handleProcessLatest / handleSaveEmail.
Finally(inv) ==
    IF ~inv.live THEN UNCHANGED <<loading, processingId>>
    ELSE IF inv.handler = "handleProcessLatest"
        THEN loading' = FALSE /\ UNCHANGED processingId
    ELSE processingId' = JNull /\ UNCHANGED loading

\* A variant of AfterPost: the handler does not reload the applications.
AfterPostNoReload(inv) == [inv EXCEPT !.reqs = {}]

\* The handler after its POST has returned: it awaits loadApplications().
AfterPost(inv) == [inv EXCEPT !.reqs = {getApplications}, !.sent = @ + 1]

\* A variant of AfterPostThrows: the applications are reloaded after a POST
\* that failed, too.
AfterPostThrowsReload(inv) ==
    [inv EXCEPT !.reqs = {getApplications}, !.sent = @ + 1]

\* A variant of AfterPostThrows: the catch block issues the POST again.
AfterPostThrowsRetry(inv) == [inv EXCEPT !.sent = @ + 1]

\* The handler after its POST has thrown: the catch and finally blocks run
\* and it awaits nothing more.
AfterPostThrows(inv) == [inv EXCEPT !.reqs = {}]

\* The invocations left once `inv` has become `next`: an invocation that
\* awaits nothing has finished.
Continue(inv, next) ==
    IF next.reqs = {} THEN Remove(inv)
    ELSE Remove(inv) (+) SetToBag({next})

\* handleProcessLatest / handleSaveEmail after the await of their POST.
PostSettles(inv, req, out) ==
    /\ inv.handler \in {"handleProcessLatest", "handleSaveEmail"}
    /\ req.method = "POST"
    /\ LET res == ApiResult(out)
       IN  IF res.kind = "return"
           THEN /\ inflight' = Continue(inv, AfterPost(inv))
                /\ appsRequested' =
                       Observed(\/ appsRequested = "yes"
                                \/ getApplications \in AfterPost(inv).reqs)
                /\ UNCHANGED <<error, loading, processingId>>
           ELSE /\ inflight' = Continue(inv, AfterPostThrows(inv))
                /\ error' = CaughtError(inv, res)
                /\ Finally(inv)
                /\ UNCHANGED appsRequested
    /\ UNCHANGED <<authVars, emails, applications>>

\* handleProcessLatest / handleSaveEmail after the await of loadApplications().
ReloadSettles(inv, req, out) ==
    /\ inv.handler \in {"handleProcessLatest", "handleSaveEmail"}
    /\ req.method = "GET"
    /\ inflight' = Remove(inv)
    /\ applications' =
           IF inv.live THEN LoadApplicationsResult(ApiResult(out))
           ELSE applications
    /\ Finally(inv)
    /\ UNCHANGED <<authVars, emails, error, appsRequested>>

\* A request of `inv` settles with outcome `out`.
Settles(inv, req, out) ==
    \/ loadApplicationsSettles(inv, req, out)
    \/ handleFetchEmailsSettles(inv, req, out)
    \/ PostSettles(inv, req, out)
    \/ ReloadSettles(inv, req, out)

\* ------------------------------------------------------------ the system

Next ==
    \/ \E session \in Sessions : GetSessionResolves(session)
    \/ GetSessionRejects
    \/ \E session \in Sessions : AuthStateChange(session)
    \/ LazyResolves
    \/ handleGoogleSignIn
    \/ \E ok \in BOOLEAN : SignInSettles(ok)
    \/ \E ok \in BOOLEAN : handleSignOut(ok)
    \/ loadApplications
    \/ handleFetchEmails
    \/ handleProcessLatest
    \/ \E emailId \in 1..MaxEmailId : handleSaveEmail(emailId)
    \/ \E inv \in BagToSet(inflight) : \E req \in inv.reqs :
           \E out \in Outcomes(req) :
               loadApplicationsSettles(inv, req, out)
    \/ \E inv \in BagToSet(inflight) : \E req \in inv.reqs :
           \E out \in Outcomes(req) :
               handleFetchEmailsSettles(inv, req, out)
    \/ \E inv \in BagToSet(inflight) : \E req \in inv.reqs :
           \E out \in Outcomes(req) : PostSettles(inv, req, out)
    \/ \E inv \in BagToSet(inflight) : \E req \in inv.reqs :
           \E out \in Outcomes(req) : ReloadSettles(inv, req, out)

Spec == Init /\ [][Next]_vars

\* The runs that record appsRequested.
ObservedSpec == ObservedInit /\ [][Next]_vars

\* The requests the Dashboard can issue.
Requests ==
    {getApplications}
        \cup UNION {{fetchEmails(tok, DefaultQuery, MaxResults),
                     processLatestEmail(tok)}
                        \cup {saveApplication(tok, emailId) :
                                  emailId \in 1..MaxEmailId} :
                    tok \in ProviderTokens \ {JNull}}

\* The handler invocations that can be suspended at an await.
Invocations ==
    [handler : {"loadApplications", "handleFetchEmails",
                "handleProcessLatest", "handleSaveEmail"},
     live : BOOLEAN,
     reqs : {{req} : req \in Requests},
     sent : 1..2]

\* The request the invocation `inv` is awaiting is answered.
Answered(inv) ==
    /\ inv \in BagToSet(inflight)
    /\ \E req \in inv.reqs : \E out \in Outcomes(req) : Settles(inv, req, out)

\* The runs in which every promise settles: getSession() resolves or
\* rejects, signInWithGoogle() returns or throws, the import of ./Dashboard
\* resolves, and fetch() answers every request.
FairSpec ==
    /\ Spec
    /\ WF_vars(\/ \E session \in Sessions : GetSessionResolves(session)
               \/ GetSessionRejects)
    /\ WF_vars(\E ok \in BOOLEAN : SignInSettles(ok))
    /\ WF_vars(LazyResolves)
    /\ \A inv \in Invocations : WF_vars(Answered(inv))

\* ---------------------------------------------------------- observations

RECURSIVE SumRequests(_, _)
\* The number of requests the invocations in `S` of `bag` are awaiting.
SumRequests(S, bag) ==
    IF S = {} THEN 0
    ELSE LET inv == CHOOSE x \in S : TRUE
         IN  CopiesIn(inv, bag) * Cardinality(inv.reqs)
                 + SumRequests(S \ {inv}, bag)

\* The number of backend HTTP requests in flight.
RequestsInFlight == SumRequests(BagToSet(inflight), inflight)

\* The requests in flight, without multiplicity.
RequestSet == UNION {inv.reqs : inv \in BagToSet(inflight)}

\* The invocations of `handler` that belong to the mounted Dashboard.
Live(handler) ==
    {inv \in BagToSet(inflight) : inv.live /\ inv.handler = handler}

\* The invocations this step takes out of flight or moves on to their next
\* await: every settling does that to the invocation it resumes.
Resumed == BagToSet(inflight (-) inflight')

\* The invocations that start or move on to another await in this step, and
\* at an unmount the orphaned ones.
Advanced == BagToSet(inflight' (-) inflight)

\* The invocation `inv` finishes in this step.
Finishes(inv) == inflight' = Remove(inv)

\* The error banner shows the message of a failed request.
ShowsFailure == error.t = "str" /\ error.v # NoTokenMessage

\* The error banner shows the detail of a refused save.
ShowsSaveFailure == \E emailId \in 1..MaxEmailId :
    error = JStr(DetailFor(saveApplication(providerToken, emailId)))

\* ------------------------------------------------------------------ claims

\* C1 as stated: in every reachable state at most one backend HTTP request
\* is in flight.
C1_OneRequestInFlight == RequestsInFlight <= 1

\* C1, amended: every handler invocation awaits exactly one HTTP request at a
\* time (Process Latest and save issue their reload only after the POST has
\* returned); requests of different invocations may be in flight together.
C1_OneRequestPerInvocation ==
    \A inv \in BagToSet(inflight) : Cardinality(inv.reqs) = 1

\* C1 witness: the mounted Dashboard has two invocations in flight, one of
\* them Fetch Emails or Process Latest, so two requests are in flight.
C1_Witness ==
    /\ RequestsInFlight >= 2
    /\ \E inv \in BagToSet(inflight) :
           /\ inv.live
           /\ inv.handler \in {"handleFetchEmails", "handleProcessLatest"}
    /\ \E inv \in BagToSet(inflight) :
           inv.live /\ inv.handler \in {"loadApplications", "handleSaveEmail"}

\* C2 as stated: whenever a backend request fails, or signInWithGoogle,
\* signOut or getSession throws, the displayed error string is non-null
\* afterwards.
C2_EveryFailureShown ==
    [][/\ \A inv \in Resumed : \A req \in inv.reqs :
              \A out \in Outcomes(req) :
                  (ApiResult(out).kind = "throw" /\ Settles(inv, req, out))
                      => error' # JNull
       /\ SignInSettles(FALSE) => error' # JNull
       /\ handleSignOut(FALSE) => error' # JNull
       /\ GetSessionRejects => error' # JNull]_vars

\* C2, amended: a failed GET emails, POST save-application or POST
\* process-latest-email is caught and, for a Dashboard that is still mounted,
\* the error string becomes the failure's message; a failed GET applications
\* is caught and only logged, the error string staying as it was; a throw of
\* signInWithGoogle, signOut or getSession is caught and only logged, the
\* error string staying as it was (sign-in and the auth check end loading).
C2_FailuresCaught ==
    [][/\ \A inv \in Resumed : \A req \in inv.reqs :
              \A out \in Outcomes(req) :
                  (ApiResult(out).kind = "throw" /\ Settles(inv, req, out))
                      => IF inv.live /\ req # getApplications
                         THEN error' = JStr(ApiResult(out).message)
                         ELSE error' = error
       /\ SignInSettles(FALSE) => (error' = error /\ ~signInLoading')
       /\ handleSignOut(FALSE) => error' = error
       /\ GetSessionRejects => (error' = error /\ ~authLoading')]_vars

\* C2 witness: the banner of a mounted Dashboard shows a failed request's
\* message while no sign-in is pending and the auth check has ended.
C2_Witness == Mounted /\ ShowsFailure /\ ~sessionPending /\ ~signInLoading

\* C3 as stated: every Fetch Emails click sets loading, and the completion
\* of its request leaves loading false and exactly one of: emails replaced by
\* the response with error null, or error non-null with emails unchanged.
C3_SpinnerThenListOrBanner ==
    [][/\ handleFetchEmails => loading'
       /\ \A inv \in Resumed : \A req \in inv.reqs :
              \A out \in Outcomes(req) :
                  handleFetchEmailsSettles(inv, req, out)
                      => /\ ~loading'
                         /\ (/\ ApiResult(out).kind = "return"
                             /\ emails' = JOr(out.body, JList(<<>>))
                             /\ error' = JNull)
                            # (error' # JNull /\ emails' = emails)]_vars

\* C3, amended: a Fetch Emails click with a provider token sets loading and
\* clears the error; a click without one sets the no-token error at once and
\* leaves loading false. When the request of a still mounted Dashboard
\* completes, loading becomes false and either it succeeded, emails is the
\* response ([] for an empty one) and the error string is left as it was, or
\* it failed, error is the failure's message and emails is unchanged.
C3_FetchEmails ==
    [][/\ handleFetchEmails =>
              /\ emails' = emails
              /\ IF Truthy(providerToken)
                 THEN loading' /\ error' = JNull
                 ELSE ~loading' /\ error' = JStr(NoTokenMessage)
       /\ \A inv \in Resumed : \A req \in inv.reqs :
              \A out \in Outcomes(req) :
                  (handleFetchEmailsSettles(inv, req, out) /\ inv.live)
                      => /\ ~loading'
                         /\ IF ApiResult(out).kind = "return"
                            THEN /\ emails' = JOr(out.body, JList(<<>>))
                                 /\ error' = error
                            ELSE /\ error' = JStr(ApiResult(out).message)
                                 /\ emails' = emails]_vars

\* C3 witness: a fetched list is shown together with the banner of a later
\* failure, and the spinner is off.
C3_Witness ==
    /\ Mounted
    /\ ~loading
    /\ emails.t = "list" /\ Len(emails.v) > 0
    /\ ShowsFailure

\* A button click: Refresh, Fetch Emails, Process Latest, a save button,
\* sign-in or Sign Out.
UserAction ==
    \/ handleGoogleSignIn
    \/ \E ok \in BOOLEAN : handleSignOut(ok)
    \/ loadApplications
    \/ handleFetchEmails
    \/ handleProcessLatest
    \/ \E emailId \in 1..MaxEmailId : handleSaveEmail(emailId)

\* A click on Fetch Emails, Process Latest or a save button.
TokenAction ==
    \/ handleFetchEmails
    \/ handleProcessLatest
    \/ \E emailId \in 1..MaxEmailId : handleSaveEmail(emailId)

\* The step mounts a Dashboard.
Mounts == ~Mounted /\ Mounted'

\* The step unmounts the Dashboard.
Unmounts == Mounted /\ ~Mounted'

\* The invocations awaiting `req`, as a bag.
Awaiting(req) ==
    [inv \in {i \in BagToSet(inflight) : req \in i.reqs} |->
        CopiesIn(inv, inflight)]

\* The bag of the requests in flight, each as often as it is awaited.
RequestBag == [req \in RequestSet |-> BagCardinality(Awaiting(req))]

\* C4 as stated: once a save has failed and set the error string, a click
\* that saves again (with a provider token) clears the error string before
\* its request is issued, and so does a Fetch Emails or Process Latest click;
\* when a request started that way succeeds in a mounted Dashboard (for
\* Process Latest and save: the POST and its reload) the error string is null
\* afterwards.
C4_DismissibleByRetry ==
    [][/\ (HasToken /\ handleFetchEmails) => error' = JNull
       /\ (HasToken /\ handleProcessLatest) => error' = JNull
       /\ \A emailId \in 1..MaxEmailId :
              (/\ ShowsSaveFailure
               /\ HasToken
               /\ CanStart
               /\ handleSaveEmail(emailId))
                  => error' = JNull
       /\ \A inv \in Resumed : \A req \in inv.reqs :
              \A out \in Outcomes(req) :
                  (/\ inv.live
                   /\ ApiResult(out).kind = "return"
                   /\ \/ handleFetchEmailsSettles(inv, req, out)
                      \/ ReloadSettles(inv, req, out))
                      => error' = JNull]_vars

\* The step issues a GET applications request.
IssuesGetApplications ==
    CopiesIn(getApplications, RequestBag')
        > CopiesIn(getApplications, RequestBag)

\* C5 as stated, for the GET applications endpoint: between two requests to
\* it there is always a click or a Dashboard mount: a step that is neither
\* issues the request only if none was issued in or since the latest click
\* or mount.
C5_ActionBetweenRequests ==
    [][(IssuesGetApplications /\ ~UserAction /\ ~Mounts)
           => appsRequested # "yes"]_vars

\* C5, amended: a failed request is never issued again by the client on its
\* own: the invocation whose request fails ends in that step, and every step
\* in which an invocation starts or moves on to another await is a click, a
\* Dashboard mount, or the one reload that follows a POST that succeeded
\* (which may follow another GET applications with no click or mount between
\* them); an unmount leaves the requests in flight as they are.
C5_NoRetries ==
    [][/\ \A inv \in Resumed :
              ~Finishes(inv)
                  => \A req \in inv.reqs : \A out \in Outcomes(req) :
                         ApiResult(out).kind = "throw"
                             => ~Settles(inv, req, out)
       /\ (Advanced # {} /\ ~Unmounts)
              => \/ Mounts
                 \/ \E inv \in Resumed : \E req \in inv.reqs :
                        \E out \in Outcomes(req) :
                            /\ ApiResult(out).kind = "return"
                            /\ PostSettles(inv, req, out)
                            /\ (RequestBag (+) SetToBag({getApplications}))
                                   = (RequestBag' (+) SetToBag({req}))
                 \/ UserAction
       /\ Unmounts => RequestBag' = RequestBag]_vars

\* C5 witness: a failed request's message is shown, nothing has issued that
\* request again, and a reload is in flight next to another GET applications.
C5_Witness ==
    /\ Mounted
    /\ ShowsFailure
    /\ appsRequested = "yes"
    /\ RequestBag = SetToBag({getApplications}) (+) SetToBag({getApplications})
    /\ \E inv \in BagToSet(inflight) : inv.live /\ inv.sent = 2

\* C6: within a mounted Dashboard the emails state changes only in the step
\* in which a GET emails request of that Dashboard succeeds, and is then the
\* response ([] for an empty one); a failed request, the settling of any
\* other request and every click leave it unchanged; a Dashboard that mounts
\* starts with [].
C6_EmailsFromBackend ==
    [][/\ (Mounted /\ Mounted' /\ emails' # emails)
              => \E inv \in Resumed : \E req \in inv.reqs :
                     \E out \in Outcomes(req) :
                         /\ handleFetchEmailsSettles(inv, req, out)
                         /\ inv.live
                         /\ req = fetchEmails(JStr("ya29.token"), "in:inbox", 10)
                         /\ ApiResult(out).kind = "return"
                         /\ emails' = JOr(out.body, JList(<<>>))
       /\ emails' # emails
              => /\ ~(loadApplications \/ TokenAction)
                 /\ \A inv \in Resumed : \A req \in inv.reqs :
                        \A out \in Outcomes(req) :
                            (\/ ApiResult(out).kind = "throw"
                             \/ inv.handler # "handleFetchEmails")
                                => ~Settles(inv, req, out)
       /\ Mounts => emails' = JList(<<>>)]_vars

\* C6 witness: a mounted Dashboard shows a fetched list while a save or a
\* refresh is in flight.
C6_Witness ==
    /\ Mounted
    /\ emails.t = "list" /\ Len(emails.v) > 0
    /\ Live("handleSaveEmail") \cup Live("loadApplications") # {}

\* C7: within a mounted Dashboard the applications state changes only in the
\* step in which a GET applications request of that Dashboard succeeds, and
\* is then the response; a failed request, the settling of a POST or of GET
\* emails and every click leave it unchanged; a Dashboard that mounts starts
\* with [].
C7_ApplicationsFromBackend ==
    [][/\ (Mounted /\ Mounted' /\ applications' # applications)
              => \E inv \in Resumed : \E req \in inv.reqs :
                     \E out \in Outcomes(req) :
                         /\ \/ loadApplicationsSettles(inv, req, out)
                            \/ ReloadSettles(inv, req, out)
                         /\ inv.live
                         /\ req = getApplications
                         /\ ApiResult(out).kind = "return"
                         /\ applications' = out.body
       /\ applications' # applications
              => /\ ~(loadApplications \/ TokenAction)
                 /\ \A inv \in Resumed : \A req \in inv.reqs :
                        \A out \in Outcomes(req) :
                            (\/ ApiResult(out).kind = "throw"
                             \/ req # getApplications)
                                => ~Settles(inv, req, out)
       /\ Mounts => applications' = JList(<<>>)]_vars

\* C7 witness: a mounted Dashboard shows a loaded list of applications and
\* the banner of a failed request.
C7_Witness ==
    /\ Mounted
    /\ applications.t = "list" /\ Len(applications.v) > 0
    /\ ShowsFailure

\* Fetch Emails / Process Latest is in progress in the mounted Dashboard.
FetchInProgress == Live("handleFetchEmails") # {}

ProcessInProgress == Live("handleProcessLatest") # {}

\* C8 as stated: each button has its own boolean loading flag: Fetch Emails
\* in progress alone leaves the Process Latest button enabled, and Process
\* Latest in progress alone leaves the Fetch Emails button enabled.
C8_FlagPerButton ==
    /\ (FetchInProgress /\ ~ProcessInProgress) => ~ProcessDisabled
    /\ (ProcessInProgress /\ ~FetchInProgress) => ~FetchDisabled

\* C8, amended: there is one boolean loading flag, shared by the Fetch
\* Emails and Process Latest buttons: the two are disabled together, and
\* both are while either handler is in progress.
C8_SharedLoadingFlag ==
    /\ FetchDisabled = ProcessDisabled
    /\ (FetchInProgress \/ ProcessInProgress)
           => (FetchDisabled /\ ProcessDisabled)

\* C8 witness: Fetch Emails is in progress, Process Latest is not, and the
\* Process Latest button is disabled.
C8_Witness == FetchInProgress /\ ~ProcessInProgress /\ ProcessDisabled

\* C9 as stated: every invocation of a Dashboard handler (given a provider
\* token where it needs one) issues exactly one backend HTTP request: one at
\* the click, and when it finishes that is still the only one.
C9_SingleCall ==
    [][/\ (loadApplications \/ (HasToken /\ TokenAction))
              => RequestsInFlight' = RequestsInFlight + 1
       /\ \A inv \in Resumed : Finishes(inv) => inv.sent = 1]_vars

\* C9, amended: Refresh (like the mount-time load) and Fetch Emails issue
\* exactly one request per invocation; Process Latest and save issue one
\* POST and, only when it succeeds, one follow-up GET applications: two
\* requests on success, one on a failed POST; without a provider token Fetch
\* Emails, Process Latest and save issue none.
C9_RequestsPerInvocation ==
    [][/\ loadApplications => RequestsInFlight' = RequestsInFlight + 1
       /\ TokenAction
              => RequestsInFlight' =
                     RequestsInFlight + (IF HasToken THEN 1 ELSE 0)
       /\ \A inv \in Resumed :
              Finishes(inv)
                  => IF inv.handler \in {"loadApplications",
                                         "handleFetchEmails"}
                     THEN inv.sent = 1
                     ELSE \/ inv.sent = 2 /\ inv.reqs = {getApplications}
                          \/ /\ inv.sent = 1
                             /\ \A req \in inv.reqs : req.method = "POST"
       /\ \A inv \in Resumed : \A req \in inv.reqs :
              \A out \in Outcomes(req) :
                  PostSettles(inv, req, out)
                      => IF ApiResult(out).kind = "return"
                         THEN /\ ~Finishes(inv)
                              /\ inv.sent = 1
                              /\ (RequestBag' (+) SetToBag({req}))
                                     = (RequestBag (+)
                                            SetToBag({getApplications}))
                         ELSE Finishes(inv) /\ inv.sent = 1]_vars

\* C9 witness: a Process Latest or save invocation of the mounted Dashboard
\* is awaiting its second request.
C9_Witness ==
    \E inv \in BagToSet(inflight) :
        inv.live /\ inv.sent = 2 /\ inv.reqs = {getApplications}

\* The Authorization headers that carry a provider token.
BearerHeaders ==
    {JStr("Bearer " \o tok.v) : tok \in {p \in ProviderTokens : p # JNull}}

\* C10: every GET applications request in flight has no Authorization
\* header, and every GET emails, POST save-application and POST
\* process-latest-email request in flight carries a Bearer header made of a
\* provider token that is not null.
C10_Authorization ==
    \A req \in RequestSet :
        IF req.url = ApplicationsUrl
        THEN req.method = "GET" /\ req.auth = JNull
        ELSE /\ req.auth \in BearerHeaders
             /\ \/ req = fetchEmails(JStr("ya29.token"), "in:inbox", 10)
                \/ req = processLatestEmail(JStr("ya29.token"))
                \/ \E emailId \in 1..MaxEmailId :
                       req = saveApplication(JStr("ya29.token"), emailId)

\* C10 witness: a GET applications without a header and an authenticated
\* POST are in flight while the provider token has become null.
C10_Witness ==
    /\ getApplications \in RequestSet
    /\ \E req \in RequestSet : req.method = "POST" /\ req.auth \in BearerHeaders
    /\ Mounted
    /\ providerToken = JNull

\* C11: in every state exactly one of spinner, Dashboard and landing page is
\* shown; the Dashboard, and so every handler invocation of the mounted
\* Dashboard, only with authLoading false and a user that is not null; the
\* landing page, and so a pending sign-in click made on it, only with
\* authLoading false, and while it is shown the user is null.
C11_Routing ==
    /\ Cardinality({shown \in {"spinner", "dashboard", "landing"} :
                        \/ shown = "spinner" /\ SpinnerShown
                        \/ shown = "dashboard" /\ DashboardShown
                        \/ shown = "landing" /\ LandingShown}) = 1
    /\ DashboardShown => (~authLoading /\ user # JNull)
    /\ LandingShown => (~authLoading /\ user = JNull)
    /\ \A inv \in BagToSet(inflight) :
           inv.live => (DashboardShown /\ ~authLoading /\ user # JNull)
    /\ signInLoading => ~authLoading

\* C11 witness: the Dashboard is shown with a handler invocation in flight,
\* after an auth event that arrived before getSession answered.
C11_Witness ==
    /\ DashboardShown
    /\ sessionPending
    /\ \E inv \in BagToSet(inflight) :
           inv.live /\ inv.handler # "loadApplications"

\* C12: with a null provider token a click on Fetch Emails or Process Latest
\* sets the error to 'No Gmail token available. Please sign in again.',
\* issues no request and leaves loading false and everything else as it was;
\* a click on a save button issues no request and changes no state.
C12_MissingTokenGuard ==
    [][providerToken = JNull
           => /\ (handleFetchEmails \/ handleProcessLatest)
                     => /\ error' =
                               JStr("No Gmail token available. "
                                        \o "Please sign in again.")
                        /\ ~loading'
                        /\ inflight' = inflight
                        /\ UNCHANGED <<emails, applications, loading,
                                       processingId>>
              /\ \A emailId \in 1..MaxEmailId :
                     handleSaveEmail(emailId)
                         => UNCHANGED <<dashVars, inflight>>]_vars

\* C12 witness: a Dashboard whose provider token has become null shows the
\* no-token error next to its fetched emails, with nothing in flight.
C12_Witness ==
    /\ Mounted
    /\ providerToken = JNull
    /\ error = JStr(NoTokenMessage)
    /\ ShownEmailIds # {}
    /\ ~loading
    /\ inflight = EmptyBag

\* C13: if every request is answered, the progress indicators are always
\* released: loading, once true, becomes false again, and processingId, once
\* set, becomes null again; a step that resumes an invocation finishes it or
\* moves it on to its second and last await; and in every state with no
\* request in flight loading is false and processingId is null.
C13_IndicatorsReleased ==
    /\ loading ~> ~loading
    /\ (processingId # JNull) ~> (processingId = JNull)
    /\ [][\A inv \in Resumed :
              \/ Finishes(inv)
              \/ Unmounts
              \/ /\ inv.sent = 1
                 /\ inflight' =
                        Remove(inv) (+)
                            SetToBag({[inv EXCEPT !.reqs = {getApplications},
                                                  !.sent = 2]})]_vars
    /\ [](inflight = EmptyBag => (~loading /\ processingId = JNull))

\* C13 witness: a save has failed and a load has succeeded in the mounted
\* Dashboard, nothing is in flight and both indicators are off.
C13_Witness ==
    /\ Mounted
    /\ inflight = EmptyBag
    /\ ShowsSaveFailure
    /\ applications.t = "list" /\ Len(applications.v) > 0
    /\ ~loading
    /\ processingId = JNull

\* C14: an invocation of Process Latest or save awaits GET applications only
\* as its second request, issued in the step in which its POST succeeds,
\* which leaves error and applications as they are; when the POST fails the
\* invocation ends without issuing a request, applications is unchanged and
\* the error string of its Dashboard, if still mounted, is the failure's
\* message; the answer to the follow-up GET applications leaves the error
\* string as it is, and its failure leaves applications unchanged too.
C14_ReloadAfterSuccess ==
    /\ [](\A inv \in BagToSet(inflight) :
              inv.handler \in {"handleProcessLatest", "handleSaveEmail"}
                  => IF inv.sent = 1
                     THEN \A req \in inv.reqs : req.method = "POST"
                     ELSE inv.sent = 2 /\ inv.reqs = {getApplications})
    /\ [][\A inv \in Resumed : \A req \in inv.reqs :
              \A out \in Outcomes(req) :
                  /\ PostSettles(inv, req, out)
                         => /\ applications' = applications
                            /\ IF ApiResult(out).kind = "return"
                               THEN /\ error' = error
                                    /\ inflight' =
                                           Remove(inv) (+)
                                               SetToBag({[inv EXCEPT
                                                   !.reqs = {getApplications},
                                                   !.sent = 2]})
                               ELSE /\ Finishes(inv)
                                    /\ error' =
                                           IF inv.live
                                           THEN JStr(ApiResult(out).message)
                                           ELSE error
                  /\ ReloadSettles(inv, req, out)
                         => /\ error' = error
                            /\ Finishes(inv)
                            /\ ApiResult(out).kind = "throw"
                                   => applications' = applications]_vars

\* C14 witness: Process Latest has failed in the mounted Dashboard: its
\* message is shown and no reload is in flight.
C14_Witness ==
    /\ Mounted
    /\ HasToken
    /\ error = JStr(DetailFor(processLatestEmail(providerToken)))
    /\ ~loading
    /\ inflight = EmptyBag

\* C15: if getSession() settles, authLoading eventually becomes false; every
\* answer of getSession, resolved or rejected, and every auth event leaves
\* it false, and once false it is never true again; a rejection of
\* getSession leaves user and providerToken as they are, so that with no
\* auth event before it they are null and the landing page is shown; user
\* and providerToken change only when getSession resolves or an auth event
\* arrives.
C15_AuthCheckEnds ==
    /\ <>(~authLoading)
    /\ [][/\ ~authLoading => ~authLoading'
          /\ (\/ GetSessionRejects
              \/ \E session \in Sessions :
                     \/ GetSessionResolves(session)
                     \/ AuthStateChange(session))
                 => ~authLoading'
          /\ GetSessionRejects
                 => /\ UNCHANGED <<user, providerToken>>
                    /\ authLoading
                           => (user' = JNull /\ providerToken' = JNull
                                   /\ LandingShown')
          /\ (user' # user \/ providerToken' # providerToken)
                 => \E session \in Sessions :
                        \/ GetSessionResolves(session)
                        \/ AuthStateChange(session)]_vars

\* C15 witness: the auth check has ended with getSession answered and no user
\* ever seen: the landing page is shown and ./Dashboard was never imported.
C15_Witness ==
    /\ ~authLoading
    /\ ~sessionPending
    /\ LandingShown
    /\ user = JNull /\ providerToken = JNull
    /\ lazyStatus = "idle"
    /\ ~signInLoading

\* The invocations of handleFetchEmails and handleProcessLatest in progress,
\* as a bag: all of them, and those of the mounted Dashboard.
FetchOrProcess ==
    [inv \in {i \in BagToSet(inflight) :
                  i.handler \in {"handleFetchEmails", "handleProcessLatest"}}
        |-> CopiesIn(inv, inflight)]

LiveFetchOrProcess ==
    [inv \in {i \in DOMAIN FetchOrProcess : i.live}
        |-> CopiesIn(inv, inflight)]

\* C16 as stated: in every reachable state at most one invocation of
\* handleFetchEmails or handleProcessLatest is in progress, and loading is
\* true exactly while one is.
C16_AtMostOneInProgress ==
    /\ BagCardinality(FetchOrProcess) <= 1
    /\ loading <=> BagCardinality(FetchOrProcess) = 1

\* C16, amended: of the invocations of handleFetchEmails and
\* handleProcessLatest started by the mounted Dashboard at most one is in
\* progress, and loading is true exactly while one is; the invocations of a
\* Dashboard that has been unmounted are not cancelled and may be in
\* progress beside it.
C16_MutualExclusion ==
    /\ BagCardinality(LiveFetchOrProcess) <= 1
    /\ loading <=> BagCardinality(LiveFetchOrProcess) = 1
    /\ ~Mounted => (~loading /\ LiveFetchOrProcess = EmptyBag)

\* C16 witness: Process Latest of the mounted Dashboard is in progress next
\* to a Fetch Emails that an unmounted Dashboard started.
C16_Witness ==
    /\ Mounted
    /\ loading
    /\ \E inv \in DOMAIN LiveFetchOrProcess :
           inv.handler = "handleProcessLatest"
    /\ \E inv \in DOMAIN FetchOrProcess :
           ~inv.live /\ inv.handler = "handleFetchEmails"
====
